---- MODULE Spec2Model ----
(***************************************************************************)
(* A model of plasmapy/formulary/parameters.py: the plasma-parameter       *)
(* formulas as pure functions over exact numbers, and one action per       *)
(* public formula that records a call and what it produced.                *)
(*                                                                         *)
(* Numbers.  A quantity's magnitude is a record [t, n, d, p]:              *)
(*   t = "rat"  : the number (n/d) * pi^p, d > 0, n/d in lowest terms;     *)
(*   t = "root" : sgn(n) * sqrt((|n|/d) * pi^p), kept only when that is    *)
(*                irrational (a perfect square is stored as a "rat");      *)
(*   t = "inf"  : +infinity (n = 1) or -infinity (n = -1);                 *)
(*   t = "nan"  : IEEE not-a-number;                                       *)
(*   t = "none" : Python's None (an absent argument);                      *)
(*   t = "unrep": a sum the representation cannot hold (never produced by  *)
(*                the inputs drawn here).                                  *)
(* The representation is canonical, so equality of values is equality of   *)
(* records.  Units: a system in which k_B = e = eps0 = m_e = 1 and         *)
(* c = 100, hence mu0 = 1/c^2.                                             *)
(***************************************************************************)
EXTENDS Integers, Sequences, FiniteSets, TLC

VARIABLES op, args, res, callerVperp

vars == <<op, args, res, callerVperp>>

----------------------------------------------------------------------------
(* Exact arithmetic standing for the numpy / astropy arithmetic.           *)

IAbs(x) == IF x < 0 THEN -x ELSE x

Sgn(x) == IF x > 0 THEN 1 ELSE IF x < 0 THEN -1 ELSE 0

RECURSIVE GCD(_, _)
GCD(a, b) == IF b = 0 THEN a ELSE GCD(b, a % b)

RECURSIVE ISqrtIn(_, _, _)
ISqrtIn(x, lo, hi) ==
    IF lo >= hi THEN lo
    ELSE LET mid == (lo + hi + 1) \div 2
         IN IF mid * mid <= x THEN ISqrtIn(x, mid, hi) ELSE ISqrtIn(x, lo, mid - 1)

\* floor of the square root of a natural number below 2^30
ISqrt(x) == ISqrtIn(x, 0, IF x < 32768 THEN x ELSE 32768)

IsSquare(x) == ISqrt(x) * ISqrt(x) = x

Num(t, n, d, p) == [t |-> t, n |-> n, d |-> d, p |-> p]

NaN == Num("nan", 0, 1, 0)

Inf(s) == Num("inf", s, 1, 0)

NoneV == Num("none", 0, 1, 0)

Unrep == Num("unrep", 0, 1, 0)

\* (n/d) * pi^p in lowest terms, d # 0
Rat(n, d, p) ==
    IF n = 0 THEN Num("rat", 0, 1, 0)
    ELSE LET g == GCD(IAbs(n), IAbs(d))
         IN Num("rat", Sgn(n) * Sgn(d) * (IAbs(n) \div g), IAbs(d) \div g, p)

R(n, d) == Rat(n, d, 0)

I(n) == Rat(n, 1, 0)

\* s * sqrt((n/d) * pi^p) for n >= 0, d > 0, in canonical form
Root(s, n, d, p) ==
    IF n = 0 \/ s = 0 THEN Num("rat", 0, 1, 0)
    ELSE LET g == GCD(n, d)
             a == n \div g
             b == d \div g
         IN IF IsSquare(a) /\ IsSquare(b) /\ p % 2 = 0
            THEN Num("rat", s * ISqrt(a), ISqrt(b), p \div 2)
            ELSE Num("root", s * a, b, p)

IsFin(x) == x.t \in {"rat", "root"}

IsZero(x) == x.t = "rat" /\ x.n = 0

\* np.isfinite
isfinite(x) == IsFin(x)

\* np.isnan
isnan(x) == x.t = "nan"

\* the square of a finite number, as numerator, denominator and power of pi
SqN(x) == IF x.t = "rat" THEN x.n * x.n ELSE IAbs(x.n)

SqD(x) == IF x.t = "rat" THEN x.d * x.d ELSE x.d

SqP(x) == IF x.t = "rat" THEN 2 * x.p ELSE x.p

Mul(x, y) ==
    IF x.t \in {"nan", "none", "unrep"} \/ y.t \in {"nan", "none", "unrep"} THEN
        IF x.t = "unrep" \/ y.t = "unrep" THEN Unrep ELSE NaN
    ELSE IF x.t = "inf" \/ y.t = "inf" THEN
        IF IsZero(x) \/ IsZero(y) THEN NaN ELSE Inf(Sgn(x.n) * Sgn(y.n))
    ELSE IF x.t = "rat" /\ y.t = "rat" THEN Rat(x.n * y.n, x.d * y.d, x.p + y.p)
    ELSE Root(Sgn(x.n) * Sgn(y.n), SqN(x) * SqN(y), SqD(x) * SqD(y), SqP(x) + SqP(y))

\* 1 / y for y # 0
Inv(y) ==
    IF y.t \in {"nan", "none"} THEN NaN
    ELSE IF y.t = "unrep" THEN Unrep
    ELSE IF y.t = "inf" THEN I(0)
    ELSE IF y.t = "rat" THEN Rat(y.d * Sgn(y.n), IAbs(y.n), -y.p)
    ELSE Root(Sgn(y.n), y.d, IAbs(y.n), -y.p)

\* IEEE division: x/0 is +-inf, 0/0 is nan
Div(x, y) ==
    IF IsZero(y) THEN
        IF x.t \in {"nan", "none"} \/ IsZero(x) THEN NaN
        ELSE IF x.t = "unrep" THEN Unrep
        ELSE Inf(Sgn(x.n))
    ELSE IF x.t = "inf" /\ y.t = "inf" THEN NaN
    ELSE Mul(x, Inv(y))

Add(x, y) ==
    IF x.t \in {"nan", "none"} \/ y.t \in {"nan", "none"} THEN NaN
    ELSE IF x.t = "unrep" \/ y.t = "unrep" THEN Unrep
    ELSE IF x.t = "inf" /\ y.t = "inf" THEN IF x.n = y.n THEN x ELSE NaN
    ELSE IF x.t = "inf" THEN x
    ELSE IF y.t = "inf" THEN y
    ELSE IF IsZero(x) THEN y
    ELSE IF IsZero(y) THEN x
    ELSE IF x.t = "rat" /\ y.t = "rat" /\ x.p = y.p
         THEN Rat(x.n * y.d + y.n * x.d, x.d * y.d, x.p)
    ELSE Unrep

\* np.sqrt: nan for a negative argument
Sqrt(x) ==
    IF x.t \in {"nan", "none"} THEN NaN
    ELSE IF x.t = "inf" THEN IF x.n > 0 THEN x ELSE NaN
    ELSE IF x.t = "rat" THEN IF x.n < 0 THEN NaN ELSE Root(1, x.n, x.d, x.p)
    ELSE Unrep

\* np.abs
AbsV(x) == IF x.t \in {"rat", "root", "inf"} THEN [x EXCEPT !.n = IAbs(x.n)] ELSE x

Square(x) == Mul(x, x)

IsNeg(x) == x.t \in {"rat", "root", "inf"} /\ x.n < 0

\* np.pi as the comparisons see it
PiNum == 22

PiDen == 7

RECURSIVE Pow(_, _)
Pow(b, k) == IF k = 0 THEN 1 ELSE b * Pow(b, k - 1)

\* x < y for rationals without a power of pi
RatLt(x, y) == x.n * y.d < y.n * x.d

\* |x| >= n/d for a bound n/d > 0; false for nan, as every IEEE comparison is
AbsGe(x, n, d) ==
    IF x.t = "inf" THEN TRUE
    ELSE IF ~IsFin(x) THEN FALSE
    ELSE LET up == IF SqP(x) > 0 THEN Pow(PiNum, SqP(x)) ELSE Pow(PiDen, -SqP(x))
             dn == IF SqP(x) > 0 THEN Pow(PiDen, SqP(x)) ELSE Pow(PiNum, -SqP(x))
         IN SqN(x) * up * d * d >= n * n * SqD(x) * dn

----------------------------------------------------------------------------
(* Physical constants (astropy.constants.si), in the model's units.        *)

c == 100

k_B == 1

e == 1

eps0 == 1

m_e == 1

mu0 == R(1, c * c)

\* betafrac of the relativistic guard: the warning threshold is c / BetaDen
BetaDen == 20

----------------------------------------------------------------------------
(* Quantities and results.  A quantity is [arr, v]: v the sequence of its  *)
(* elements, arr whether it is an array (a scalar has one element).  A     *)
(* result is [st, val, warn, log, raw]: st "ok" or the exception raised,   *)
(* val the returned quantity, warn the warnings emitted, log the calls     *)
(* made, as <<caller, callee>> in order, raw the value a decorated body    *)
(* returned before its decorators acted.                                   *)

S(x) == [arr |-> FALSE, v |-> <<x>>]

A(seq) == [arr |-> TRUE, v |-> seq]

NoneQ == S(NoneV)

Ok(val, warn, log) == [st |-> "ok", val |-> val, warn |-> warn, log |-> log, raw |-> val]

Err(st, warn, log) == [st |-> st, val |-> NoneQ, warn |-> warn, log |-> log, raw |-> NoneQ]

----------------------------------------------------------------------------
(* The particle resolver (plasmapy.atomic), an external collaborator.      *)

NoParticle == "None"

Known == {"e-", "p+", "D+", "alpha", "n", "H"}

Particles == Known \cup {"xx"}

MassOf(particle) ==
    CASE particle = "e-" -> m_e
      [] particle = "p+" -> 8
      [] particle = "D+" -> 16
      [] particle = "alpha" -> 32
      [] particle = "n" -> 8
      [] particle = "H" -> 8

HasCharge(particle) == particle \in {"e-", "p+", "D+", "alpha", "n"}

ChargeOf(particle) ==
    CASE particle = "e-" -> -1
      [] particle = "p+" -> 1
      [] particle = "D+" -> 1
      [] particle = "alpha" -> 2
      [] particle = "n" -> 0

\* atomic.particle_mass
particle_mass(caller, particle) ==
    IF particle \in Known
    THEN Ok(S(I(MassOf(particle))), {}, <<<<caller, "particle_mass">>>>)
    ELSE Err("InvalidParticleError", {}, <<<<caller, "particle_mass">>>>)

\* atomic.integer_charge
integer_charge(caller, particle) ==
    IF particle \in Known /\ HasCharge(particle)
    THEN Ok(S(I(ChargeOf(particle))), {}, <<<<caller, "integer_charge">>>>)
    ELSE Err("InvalidParticleError", {}, <<<<caller, "integer_charge">>>>)

----------------------------------------------------------------------------
\* F applied to the value of x, x being evaluated once (a Python local)
With(x, F(_)) == CHOOSE out \in {F(y) : y \in {x}} : TRUE

\* an exception raised by a call r made after the calls in log, seen by the caller
Raised(r, log, warn) ==
    [st |-> r.st, val |-> NoneQ, warn |-> warn \cup r.warn, log |-> log \o r.log, raw |-> NoneQ]

----------------------------------------------------------------------------
(* The decorators (plasmapy.utils.decorators).                             *)

\* validate_quantities on one scalar argument or return value
Invalid(x, can_be_negative, none_shall_pass) ==
    IF x.t = "none" THEN ~none_shall_pass
    ELSE ~can_be_negative /\ IsNeg(x)

\* check_relativistic around a body's result; onEmpty is what taking the
\* maximum of an array without elements does
check_relativistic(body, onEmpty) ==
    With(body, LAMBDA r :
        IF r.st # "ok" THEN r
        ELSE IF Len(r.val.v) = 0 THEN
            IF onEmpty = "ok" THEN r ELSE [Err(onEmpty, r.warn, r.log) EXCEPT !.raw = r.val]
        ELSE IF \E i \in 1..Len(r.val.v) : AbsGe(r.val.v[i], c, 1)
            THEN [Err("RelativityError", r.warn, r.log) EXCEPT !.raw = r.val]
        ELSE IF \E i \in 1..Len(r.val.v) : AbsGe(r.val.v[i], c, BetaDen)
            THEN [r EXCEPT !.warn = r.warn \cup {"RelativityWarning"}]
        ELSE r)

\* angular_freq_to_hz: the explicit division by 2 pi on request
angular_freq_to_hz(body, to_hz) ==
    With(body, LAMBDA r :
        IF r.st = "ok" /\ to_hz
        THEN [r EXCEPT !.val = S(Div(r.val.v[1], Rat(2, 1, 1)))]
        ELSE r)

----------------------------------------------------------------------------
(* parameters.py                                                           *)

\* _grab_charge preferring the particle's own charge whenever it resolves
grab_charge_particle_first(caller, ion, z_mean) ==
    With(integer_charge("_grab_charge", ion), LAMBDA r :
        IF r.st = "ok" \/ z_mean = NoneV
        THEN [r EXCEPT !.log = <<<<caller, "_grab_charge">>>> \o r.log]
        ELSE Ok(S(z_mean), {}, <<<<caller, "_grab_charge">>>> \o r.log))

\* "if z_mean is None" takes the particle's charge, else z_mean verbatim
_grab_charge(caller, ion, z_mean) ==
    IF z_mean = NoneV
    THEN With(integer_charge("_grab_charge", ion), LAMBDA r :
             [r EXCEPT !.log = <<<<caller, "_grab_charge">>>> \o r.log])
    ELSE Ok(S(z_mean), {}, <<<<caller, "_grab_charge">>>>)

\* the electron term without the charge factor
mass_density_body_no_Z(caller, density, particle, z_mean) ==
    LET here == <<<<caller, "mass_density">>>>
    IN IF density.u = "kg/m3" THEN Ok(S(density.x), {}, here)
       ELSE IF particle \in {NoParticle, ""} THEN Err("ValueError", {}, here)
       ELSE With(particle_mass("mass_density", particle), LAMBDA m :
            IF m.st # "ok" THEN Raised(m, here, {})
            ELSE With(_grab_charge("mass_density", particle, z_mean), LAMBDA z :
                 IF z.st # "ok" THEN Raised(z, here \o m.log, {})
                 ELSE Ok(S(Add(Mul(density.x, m.val.v[1]), Mul(density.x, I(m_e)))),
                         {}, here \o m.log \o z.log)))

\* the particle resolved before the dimension of the density is looked at
mass_density_body_resolve_first(caller, density, particle, z_mean) ==
    LET here == <<<<caller, "mass_density">>>>
    IN With(particle_mass("mass_density", particle), LAMBDA m :
       IF m.st # "ok" THEN Raised(m, here, {})
       ELSE IF density.u = "kg/m3" THEN Ok(S(density.x), {}, here \o m.log)
       ELSE With(_grab_charge("mass_density", particle, z_mean), LAMBDA z :
            IF z.st # "ok" THEN Raised(z, here \o m.log, {})
            ELSE Ok(S(Add(Mul(density.x, m.val.v[1]),
                          Mul(Mul(z.val.v[1], density.x), I(m_e)))),
                    {}, here \o m.log \o z.log)))

\* the charge merged before the particle is tested for presence
mass_density_body_charge_first(caller, density, particle, z_mean) ==
    LET here == <<<<caller, "mass_density">>>>
    IN IF density.u = "kg/m3" THEN Ok(S(density.x), {}, here)
       ELSE With(_grab_charge("mass_density", particle, z_mean), LAMBDA z :
            IF z.st # "ok" \/ particle \in {NoParticle, ""}
            THEN Err("ValueError", {}, here \o z.log)
            ELSE With(particle_mass("mass_density", particle), LAMBDA m :
                 IF m.st # "ok" THEN Raised(m, here \o z.log, {})
                 ELSE Ok(S(Add(Mul(density.x, m.val.v[1]),
                               Mul(Mul(z.val.v[1], density.x), I(m_e)))),
                         {}, here \o z.log \o m.log)))

mass_density_body(caller, density, particle, z_mean) ==
    LET here == <<<<caller, "mass_density">>>>
    IN IF density.u = "kg/m3" THEN Ok(S(density.x), {}, here)
       ELSE IF particle \in {NoParticle, ""} THEN Err("ValueError", {}, here)
       ELSE With(particle_mass("mass_density", particle), LAMBDA m :
            IF m.st # "ok" THEN Raised(m, here, {})
            ELSE With(_grab_charge("mass_density", particle, z_mean), LAMBDA z :
                 IF z.st # "ok" THEN Raised(z, here \o m.log, {})
                 ELSE LET m_i == m.val.v[1]
                          Z == z.val.v[1]
                      IN Ok(S(Add(Mul(density.x, m_i), Mul(Mul(Z, density.x), I(m_e)))),
                            {}, here \o m.log \o z.log)))

mass_density(caller, density, particle, z_mean) ==
    IF Invalid(density.x, FALSE, FALSE)
    THEN Err("ValueError", {}, <<<<caller, "mass_density">>>>)
    ELSE With(mass_density_body(caller, density, particle, z_mean), LAMBDA r :
         IF r.st = "ok" /\ Invalid(r.val.v[1], FALSE, FALSE)
         THEN [Err("ValueError", r.warn, r.log) EXCEPT !.raw = r.val]
         ELSE r)

\* the mass density taken without the z_mean given
Alfven_speed_body_no_z_mean(caller, B, density, ion, z_mean) ==
    LET here == <<<<caller, "Alfven_speed">>>>
    IN With(mass_density("Alfven_speed", density, ion, NoneV), LAMBDA rho :
       IF rho.st # "ok" THEN Raised(rho, here, {})
       ELSE Ok(S(Div(AbsV(B), Sqrt(Mul(mu0, rho.val.v[1])))), {}, here \o rho.log))

Alfven_speed_body(caller, B, density, ion, z_mean) ==
    LET here == <<<<caller, "Alfven_speed">>>>
    IN With(mass_density("Alfven_speed", density, ion, z_mean), LAMBDA rho :
       IF rho.st # "ok" THEN Raised(rho, here, {})
       ELSE Ok(S(Div(AbsV(B), Sqrt(Mul(mu0, rho.val.v[1])))), {}, here \o rho.log))

\* Alfven_speed without its relativistic guard
Alfven_speed_unguarded(caller, B, density, ion, z_mean) ==
    IF Invalid(B, TRUE, FALSE) \/ Invalid(density.x, FALSE, FALSE)
    THEN Err("ValueError", {}, <<<<caller, "Alfven_speed">>>>)
    ELSE Alfven_speed_body(caller, B, density, ion, z_mean)

Alfven_speed(caller, B, density, ion, z_mean) ==
    IF Invalid(B, TRUE, FALSE) \/ Invalid(density.x, FALSE, FALSE)
    THEN Err("ValueError", {}, <<<<caller, "Alfven_speed">>>>)
    ELSE check_relativistic(Alfven_speed_body(caller, B, density, ion, z_mean), "ok")

Debye_length(caller, T_e, n_e) ==
    IF Invalid(T_e, FALSE, FALSE) \/ Invalid(n_e, FALSE, FALSE)
    THEN Err("ValueError", {}, <<<<caller, "Debye_length">>>>)
    ELSE Ok(S(Sqrt(Div(Mul(Mul(I(eps0), I(k_B)), T_e), Mul(n_e, Mul(I(e), I(e)))))),
            {}, <<<<caller, "Debye_length">>>>)

\* the warning given whenever an argument is missing, both missing included
Dispersion_warn_on_neither(T_e, n_e, k) ==
    IF n_e # NoneV /\ k # NoneV
    THEN With(Debye_length("ion_sound_speed", T_e, n_e), LAMBDA lambda_D :
         [klD2 |-> Square(Mul(k, lambda_D.val.v[1])), warn |-> {}, log |-> lambda_D.log])
    ELSE [klD2 |-> I(0), warn |-> {"PhysicsWarning"}, log |-> <<>>]

\* the dispersion term taken as lambda_D^2, the wavenumber left out
Dispersion_without_k(T_e, n_e, k) ==
    IF (n_e = NoneV) # (k = NoneV)
    THEN [klD2 |-> I(0), warn |-> {"PhysicsWarning"}, log |-> <<>>]
    ELSE IF n_e # NoneV /\ k # NoneV
    THEN With(Debye_length("ion_sound_speed", T_e, n_e), LAMBDA lambda_D :
         [klD2 |-> Square(lambda_D.val.v[1]), warn |-> {}, log |-> lambda_D.log])
    ELSE [klD2 |-> I(0), warn |-> {}, log |-> <<>>]

\* lines 378-386: the dispersion term k^2 lambda_D^2, the warning, the call made
Dispersion(T_e, n_e, k) ==
    IF (n_e = NoneV) # (k = NoneV)
    THEN [klD2 |-> I(0), warn |-> {"PhysicsWarning"}, log |-> <<>>]
    ELSE IF n_e # NoneV /\ k # NoneV
    THEN With(Debye_length("ion_sound_speed", T_e, n_e), LAMBDA lambda_D :
         [klD2 |-> Square(Mul(k, lambda_D.val.v[1])), warn |-> {}, log |-> lambda_D.log])
    ELSE [klD2 |-> I(0), warn |-> {}, log |-> <<>>]

\* an adiabatic index of exactly one rejected too
ion_sound_speed_body_gamma_above_one(caller, T_e, T_i, n_e, k, gamma_e, gamma_i, ion, z_mean) ==
    LET here == <<<<caller, "ion_sound_speed">>>>
    IN With(particle_mass("ion_sound_speed", ion), LAMBDA m :
       IF m.st # "ok" THEN Raised(m, here, {})
       ELSE With(_grab_charge("ion_sound_speed", ion, z_mean), LAMBDA z :
            IF z.st # "ok" THEN Raised(z, here \o m.log, {})
            ELSE IF ~RatLt(I(1), gamma_e) \/ ~RatLt(I(1), gamma_i)
                 THEN Err("PhysicsError", {}, here \o m.log \o z.log)
            ELSE With(Dispersion(T_e, n_e, k), LAMBDA dsp :
                 Ok(S(Sqrt(Div(Add(Mul(Mul(Mul(gamma_e, z.val.v[1]), I(k_B)), T_e),
                                   Mul(Mul(gamma_i, I(k_B)), T_i)),
                               Mul(m.val.v[1], Add(I(1), dsp.klD2))))),
                    dsp.warn, here \o m.log \o z.log \o dsp.log))))

ion_sound_speed_body(caller, T_e, T_i, n_e, k, gamma_e, gamma_i, ion, z_mean) ==
    LET here == <<<<caller, "ion_sound_speed">>>>
    IN With(particle_mass("ion_sound_speed", ion), LAMBDA m :
       IF m.st # "ok" THEN Raised(m, here, {})
       ELSE With(_grab_charge("ion_sound_speed", ion, z_mean), LAMBDA z :
            IF z.st # "ok" THEN Raised(z, here \o m.log, {})
            ELSE IF RatLt(gamma_e, I(1)) \/ RatLt(gamma_i, I(1))
                 THEN Err("PhysicsError", {}, here \o m.log \o z.log)
            ELSE With(Dispersion(T_e, n_e, k), LAMBDA dsp :
                 LET m_i == m.val.v[1]
                     Z == z.val.v[1]
                     V_S_squared ==
                         Div(Add(Mul(Mul(Mul(gamma_e, Z), I(k_B)), T_e),
                                 Mul(Mul(gamma_i, I(k_B)), T_i)),
                             Mul(m_i, Add(I(1), dsp.klD2)))
                 IN Ok(S(Sqrt(V_S_squared)), dsp.warn, here \o m.log \o z.log \o dsp.log))))

ion_sound_speed(caller, T_e, T_i, n_e, k, gamma_e, gamma_i, ion, z_mean) ==
    IF \/ Invalid(T_i, FALSE, FALSE) \/ Invalid(T_e, FALSE, FALSE)
       \/ Invalid(n_e, FALSE, TRUE) \/ Invalid(k, FALSE, TRUE)
    THEN Err("ValueError", {}, <<<<caller, "ion_sound_speed">>>>)
    ELSE check_relativistic(
             ion_sound_speed_body(caller, T_e, T_i, n_e, k, gamma_e, gamma_i, ion, z_mean),
             "ok")

Methods == {"most_probable", "rms", "mean_magnitude"}

\* the most probable speed without its factor 2
thermal_speed_of_no_two(T, m, method) ==
    CASE method = "most_probable" -> Sqrt(Div(Mul(I(k_B), T), m))
      [] method = "rms" -> Sqrt(Div(Mul(Mul(I(3), I(k_B)), T), m))
      [] method = "mean_magnitude" ->
             Sqrt(Div(Mul(Mul(I(8), I(k_B)), T), Mul(m, Rat(1, 1, 1))))

\* lines 491-496, for one element T and the mass m
thermal_speed_of(T, m, method) ==
    CASE method = "most_probable" -> Sqrt(Div(Mul(Mul(I(2), I(k_B)), T), m))
      [] method = "rms" -> Sqrt(Div(Mul(Mul(I(3), I(k_B)), T), m))
      [] method = "mean_magnitude" ->
             Sqrt(Div(Mul(Mul(I(8), I(k_B)), T), Mul(m, Rat(1, 1, 1))))

\* the override used unless it is NaN, an infinite one included
thermal_speed_body_unless_nan(caller, T, particle, method, mass) ==
    LET here == <<<<caller, "thermal_speed">>>>
        V(m) == [arr |-> T.arr,
                 v |-> [i \in 1..Len(T.v) |-> thermal_speed_of(T.v[i], m, method)]]
    IN IF ~isnan(mass)
       THEN IF method \in Methods THEN Ok(V(mass), {}, here) ELSE Err("ValueError", {}, here)
       ELSE With(particle_mass("thermal_speed", particle), LAMBDA pm :
            IF pm.st # "ok" THEN Raised(pm, here, {})
            ELSE IF method \in Methods THEN Ok(V(pm.val.v[1]), {}, here \o pm.log)
            ELSE Err("ValueError", {}, here \o pm.log))

thermal_speed_body(caller, T, particle, method, mass) ==
    LET here == <<<<caller, "thermal_speed">>>>
        V(m) == [arr |-> T.arr,
                 v |-> [i \in 1..Len(T.v) |-> thermal_speed_of(T.v[i], m, method)]]
    IN IF isfinite(mass)
       THEN IF method \in Methods THEN Ok(V(mass), {}, here) ELSE Err("ValueError", {}, here)
       ELSE With(particle_mass("thermal_speed", particle), LAMBDA pm :
            IF pm.st # "ok" THEN Raised(pm, here, {})
            ELSE IF method \in Methods THEN Ok(V(pm.val.v[1]), {}, here \o pm.log)
            ELSE Err("ValueError", {}, here \o pm.log))

\* T is a quantity: a scalar or an array
thermal_speed(caller, T, particle, method, mass, onEmpty) ==
    IF \/ \E i \in 1..Len(T.v) : Invalid(T.v[i], FALSE, FALSE)
       \/ ~isnan(mass) /\ Invalid(mass, FALSE, FALSE)
    THEN Err("ValueError", {}, <<<<caller, "thermal_speed">>>>)
    ELSE IF particle \notin Known
    THEN Err("InvalidParticleError", {}, <<<<caller, "thermal_speed">>>>)
    ELSE check_relativistic(thermal_speed_body(caller, T, particle, method, mass), onEmpty)

\* kappa of exactly 3/2 let through
kappa_thermal_speed_body_below_only(caller, T, kappa, particle, method) ==
    LET here == <<<<caller, "kappa_thermal_speed">>>>
        coeff == IF method = "most_probable"
                 THEN Sqrt(Div(Add(kappa, R(-3, 2)), kappa))
                 ELSE I(1)
    IN IF RatLt(kappa, R(3, 2)) THEN Err("ValueError", {}, here)
       ELSE With(thermal_speed("kappa_thermal_speed", S(T), particle, method, NaN, "ok"),
                 LAMBDA vTh :
            IF vTh.st # "ok" THEN Raised(vTh, here, {})
            ELSE Ok(S(Mul(vTh.val.v[1], coeff)), vTh.warn, here \o vTh.log))

\* the nested thermal speed taken without its own guard
kappa_thermal_speed_body_inner_unguarded(caller, T, kappa, particle, method) ==
    LET here == <<<<caller, "kappa_thermal_speed">>>>
        coeff == IF method = "most_probable"
                 THEN Sqrt(Div(Add(kappa, R(-3, 2)), kappa))
                 ELSE I(1)
    IN IF ~RatLt(R(3, 2), kappa) THEN Err("ValueError", {}, here)
       ELSE With(thermal_speed_body("kappa_thermal_speed", S(T), particle, method, NaN),
                 LAMBDA vTh :
            IF vTh.st # "ok" THEN Raised(vTh, here, {})
            ELSE Ok(S(Mul(vTh.val.v[1], coeff)), vTh.warn, here \o vTh.log))

kappa_thermal_speed_body(caller, T, kappa, particle, method) ==
    LET here == <<<<caller, "kappa_thermal_speed">>>>
        coeff == IF method = "most_probable"
                 THEN Sqrt(Div(Add(kappa, R(-3, 2)), kappa))
                 ELSE I(1)
    IN IF ~RatLt(R(3, 2), kappa) THEN Err("ValueError", {}, here)
       ELSE With(thermal_speed("kappa_thermal_speed", S(T), particle, method, NaN, "ok"),
                 LAMBDA vTh :
            IF vTh.st # "ok" THEN Raised(vTh, here, {})
            ELSE Ok(S(Mul(vTh.val.v[1], coeff)), vTh.warn, here \o vTh.log))

kappa_thermal_speed(caller, T, kappa, particle, method) ==
    IF Invalid(T, FALSE, FALSE)
    THEN Err("ValueError", {}, <<<<caller, "kappa_thermal_speed">>>>)
    ELSE check_relativistic(kappa_thermal_speed_body(caller, T, kappa, particle, method), "ok")

\* the magnitude of the charge used whatever signed says
gyrofrequency_body_unsigned(caller, B, particle, signed, Z) ==
    LET here == <<<<caller, "gyrofrequency">>>>
    IN With(particle_mass("gyrofrequency", particle), LAMBDA m :
       IF m.st # "ok" THEN Raised(m, here, {})
       ELSE With(_grab_charge("gyrofrequency", particle, Z), LAMBDA z :
            IF z.st # "ok" THEN Raised(z, here \o m.log, {})
            ELSE Ok(S(Div(Mul(Mul(AbsV(z.val.v[1]), I(e)), AbsV(B)), m.val.v[1])), {},
                    here \o m.log \o z.log)))

gyrofrequency_body(caller, B, particle, signed, Z) ==
    LET here == <<<<caller, "gyrofrequency">>>>
    IN With(particle_mass("gyrofrequency", particle), LAMBDA m :
       IF m.st # "ok" THEN Raised(m, here, {})
       ELSE With(_grab_charge("gyrofrequency", particle, Z), LAMBDA z :
            IF z.st # "ok" THEN Raised(z, here \o m.log, {})
            ELSE LET m_i == m.val.v[1]
                     Zs == IF signed THEN z.val.v[1] ELSE AbsV(z.val.v[1])
                 IN Ok(S(Div(Mul(Mul(Zs, I(e)), AbsV(B)), m_i)), {},
                       here \o m.log \o z.log)))

gyrofrequency(caller, B, particle, signed, Z, to_hz) ==
    IF Invalid(B, TRUE, FALSE)
    THEN Err("ValueError", {}, <<<<caller, "gyrofrequency">>>>)
    ELSE angular_freq_to_hz(gyrofrequency_body(caller, B, particle, signed, Z), to_hz)

\* a charge that does not resolve taken as zero
plasma_charge_zero_fallback(particle, z_mean) ==
    IF z_mean = NoneV
    THEN With(integer_charge("plasma_frequency", particle), LAMBDA ic :
         [Z |-> AbsV(IF ic.st = "ok" THEN ic.val.v[1] ELSE I(0)), log |-> ic.log])
    ELSE [Z |-> AbsV(z_mean), log |-> <<>>]

\* lines 1056-1066: the charge plasma_frequency uses, and the lookup it makes
plasma_charge(particle, z_mean) ==
    IF z_mean = NoneV
    THEN With(integer_charge("plasma_frequency", particle), LAMBDA ic :
         [Z |-> AbsV(IF ic.st = "ok" THEN ic.val.v[1] ELSE I(1)), log |-> ic.log])
    ELSE [Z |-> AbsV(z_mean), log |-> <<>>]

plasma_frequency_body(caller, n, particle, z_mean) ==
    LET here == <<<<caller, "plasma_frequency">>>>
    IN With(particle_mass("plasma_frequency", particle), LAMBDA pm :
       IF pm.st # "ok" THEN Err("ValueError", {}, here \o pm.log)
       ELSE With(plasma_charge(particle, z_mean), LAMBDA ch :
            LET m == pm.val.v[1]
            IN Ok(S(Mul(Mul(ch.Z, I(e)), Sqrt(Div(n, Mul(I(eps0), m))))), {},
                  here \o pm.log \o ch.log)))

\* plasma_frequency without its conversion to Hz
plasma_frequency_unconverted(caller, n, particle, z_mean, to_hz) ==
    IF Invalid(n, FALSE, FALSE)
    THEN Err("ValueError", {}, <<<<caller, "plasma_frequency">>>>)
    ELSE plasma_frequency_body(caller, n, particle, z_mean)

plasma_frequency(caller, n, particle, z_mean, to_hz) ==
    IF Invalid(n, FALSE, FALSE)
    THEN Err("ValueError", {}, <<<<caller, "plasma_frequency">>>>)
    ELSE angular_freq_to_hz(plasma_frequency_body(caller, n, particle, z_mean), to_hz)

upper_hybrid_frequency_body(caller, B, n_e) ==
    LET here == <<<<caller, "upper_hybrid_frequency">>>>
        me == "upper_hybrid_frequency"
    IN With(plasma_frequency(me, n_e, "e-", NoneV, FALSE), LAMBDA omega_pe :
       IF omega_pe.st # "ok" THEN Raised(omega_pe, here, {})
       ELSE With(gyrofrequency(me, B, "e-", FALSE, NoneV, FALSE), LAMBDA omega_ce :
       IF omega_ce.st # "ok" THEN Raised(omega_ce, here \o omega_pe.log, {})
       ELSE Ok(S(Sqrt(Add(Square(omega_pe.val.v[1]), Square(omega_ce.val.v[1])))),
               {}, here \o omega_pe.log \o omega_ce.log)))

upper_hybrid_frequency(caller, B, n_e, to_hz) ==
    IF Invalid(B, TRUE, FALSE) \/ Invalid(n_e, FALSE, FALSE)
    THEN Err("ValueError", {}, <<<<caller, "upper_hybrid_frequency">>>>)
    ELSE angular_freq_to_hz(upper_hybrid_frequency_body(caller, B, n_e), to_hz)

\* the three frequencies computed without the ion's charge being checked first
lower_hybrid_frequency_body_unchecked(caller, B, n_i, ion) ==
    LET here == <<<<caller, "lower_hybrid_frequency">>>>
        me == "lower_hybrid_frequency"
    IN With(gyrofrequency(me, B, ion, FALSE, NoneV, FALSE), LAMBDA omega_ci :
       IF omega_ci.st # "ok" THEN Raised(omega_ci, here, {})
       ELSE With(plasma_frequency(me, n_i, ion, NoneV, FALSE), LAMBDA omega_pi :
       IF omega_pi.st # "ok" THEN Raised(omega_pi, here \o omega_ci.log, {})
       ELSE With(gyrofrequency(me, B, "e-", FALSE, NoneV, FALSE), LAMBDA omega_ce :
       IF omega_ce.st # "ok" THEN Raised(omega_ce, here \o omega_ci.log \o omega_pi.log, {})
       ELSE Ok(S(Div(I(1),
                     Sqrt(Add(Div(I(1), Mul(omega_ci.val.v[1], omega_ce.val.v[1])),
                              Div(I(1), Square(omega_pi.val.v[1])))))),
               {}, here \o omega_ci.log \o omega_pi.log \o omega_ce.log))))

\* an argument the caller did not pass
Omitted == "omitted"

\* the particle Hall_parameter works with: 'e-' by default
Hall_particle(given) == IF given = Omitted THEN "e-" ELSE given

\* the electron collision frequency used whatever the particle
Hall_parameter_body_electron_always(caller, B, particle, nu_e, nu_i) ==
    LET here == <<<<caller, "Hall_parameter">>>>
    IN With(gyrofrequency("Hall_parameter", B, particle, FALSE, NoneV, FALSE), LAMBDA gyro :
       IF gyro.st # "ok" THEN Raised(gyro, here, {})
       ELSE Ok(S(Div(gyro.val.v[1], nu_e)), {},
               here \o gyro.log
                    \o <<<<"Hall_parameter", "fundamental_electron_collision_freq">>>>))

\* lines 709-722; nu_e and nu_i are the rates the two collision-frequency
\* functions of plasmapy.formulary.collisions return when called
Hall_parameter_body(caller, B, particle, nu_e, nu_i) ==
    LET here == <<<<caller, "Hall_parameter">>>>
    IN With(gyrofrequency("Hall_parameter", B, particle, FALSE, NoneV, FALSE), LAMBDA gyro :
       IF gyro.st # "ok" THEN Raised(gyro, here, {})
       ELSE IF particle = "e-"
       THEN Ok(S(Div(gyro.val.v[1], nu_e)), {},
               here \o gyro.log
                    \o <<<<"Hall_parameter", "fundamental_electron_collision_freq">>>>)
       ELSE Ok(S(Div(gyro.val.v[1], nu_i)), {},
               here \o gyro.log
                    \o <<<<"Hall_parameter", "fundamental_ion_collision_freq">>>>))

Hall_parameter(caller, n, T, B, given, nu_e, nu_i) ==
    IF Invalid(n, FALSE, FALSE) \/ Invalid(T, FALSE, FALSE)
    THEN Err("ValueError", {}, <<<<caller, "Hall_parameter">>>>)
    ELSE Hall_parameter_body(caller, B, Hall_particle(given), nu_e, nu_i)

\* particle_input(require='charged'): a known species of non-zero charge
charged(particle) ==
    particle \in Known /\ HasCharge(particle) /\ ChargeOf(particle) # 0

inertial_length_body(caller, n, particle) ==
    LET here == <<<<caller, "inertial_length">>>>
    IN With(plasma_frequency("inertial_length", n, particle, NoneV, FALSE), LAMBDA omega_p :
       IF omega_p.st # "ok" THEN Raised(omega_p, here, {})
       ELSE Ok(S(Div(I(c), omega_p.val.v[1])), {}, here \o omega_p.log))

\* inertial_length accepting any particle
inertial_length_any_particle(caller, n, particle) ==
    IF Invalid(n, FALSE, FALSE)
    THEN Err("ValueError", {}, <<<<caller, "inertial_length">>>>)
    ELSE inertial_length_body(caller, n, particle)

inertial_length(caller, n, particle) ==
    IF Invalid(n, FALSE, FALSE)
    THEN Err("ValueError", {}, <<<<caller, "inertial_length">>>>)
    ELSE IF ~charged(particle)
    THEN Err("InvalidParticleError", {}, <<<<caller, "inertial_length">>>>)
    ELSE inertial_length_body(caller, n, particle)

lower_hybrid_frequency_body(caller, B, n_i, ion) ==
    LET here == <<<<caller, "lower_hybrid_frequency">>>>
        me == "lower_hybrid_frequency"
    IN With(integer_charge(me, ion), LAMBDA ic :
       IF ic.st # "ok" THEN Err("ValueError", {}, here \o ic.log)
       ELSE With(gyrofrequency(me, B, ion, FALSE, NoneV, FALSE), LAMBDA omega_ci :
       IF omega_ci.st # "ok" THEN Raised(omega_ci, here \o ic.log, {})
       ELSE With(plasma_frequency(me, n_i, ion, NoneV, FALSE), LAMBDA omega_pi :
       IF omega_pi.st # "ok" THEN Raised(omega_pi, here \o ic.log \o omega_ci.log, {})
       ELSE With(gyrofrequency(me, B, "e-", FALSE, NoneV, FALSE), LAMBDA omega_ce :
       IF omega_ce.st # "ok"
       THEN Raised(omega_ce, here \o ic.log \o omega_ci.log \o omega_pi.log, {})
       ELSE Ok(S(Div(I(1),
                     Sqrt(Add(Div(I(1), Mul(omega_ci.val.v[1], omega_ce.val.v[1])),
                              Div(I(1), Square(omega_pi.val.v[1])))))),
               {}, here \o ic.log \o omega_ci.log \o omega_pi.log \o omega_ce.log)))))

lower_hybrid_frequency(caller, B, n_i, ion, to_hz) ==
    IF Invalid(B, TRUE, FALSE) \/ Invalid(n_i, FALSE, FALSE)
    THEN Err("ValueError", {}, <<<<caller, "lower_hybrid_frequency">>>>)
    ELSE angular_freq_to_hz(lower_hybrid_frequency_body(caller, B, n_i, ion), to_hz)

(* gyroradius.  Its local name Vperp is a reference into a heap of array  *)
(* objects: heap[1] is the object the caller passed.                       *)

\* element i of a quantity, a scalar being broadcast
At(q, i) == IF q.arr THEN q.v[i] ELSE q.v[1]

BLen(q1, q2) == IF Len(q1.v) > Len(q2.v) THEN Len(q1.v) ELSE Len(q2.v)

\* np.repeat(q, k) of a scalar q
repeat(q, k) == A([i \in 1..k |-> q.v[1]])

\* the elements of v the mask selects, in order
RECURSIVE Select(_, _)
Select(v, mask) ==
    IF Len(v) = 0 THEN <<>>
    ELSE IF mask[1] THEN <<v[1]>> \o Select(Tail(v), Tail(mask))
    ELSE Select(Tail(v), Tail(mask))

\* every selected element replaced by the first of vals
overwrite_first(v, mask, vals) == [i \in 1..Len(v) |-> IF mask[i] THEN vals[1] ELSE v[i]]

\* v with the elements the mask selects replaced, in order, by those of vals
RECURSIVE Overwrite(_, _, _)
Overwrite(v, mask, vals) ==
    IF Len(v) = 0 THEN <<>>
    ELSE IF mask[1] THEN <<vals[1]>> \o Overwrite(Tail(v), Tail(mask), Tail(vals))
    ELSE <<v[1]>> \o Overwrite(Tail(v), Tail(mask), vals)

\* no copy taken: the same object under the same reference
copy_alias(heap, ref) == [heap |-> heap, ref |-> ref]

\* Vperp.copy(): a new object, and the reference to it
copy(heap, ref) == [heap |-> Append(heap, heap[ref]), ref |-> Len(heap) + 1]

\* Vperp[mask] = vals: a write into the object referred to
setitem(heap, ref, mask, vals) ==
    [heap EXCEPT ![ref] = [arr |-> heap[ref].arr, v |-> Overwrite(heap[ref].v, mask, vals)]]

\* check 1 rejecting only the elements that give both
both_only(Vperp, T_i) ==
    \E i \in 1..BLen(Vperp, T_i) : isfinite(At(Vperp, i)) /\ isfinite(At(T_i, i))

\* check 1, lines 929-935
BothOrNeither(Vperp, T_i) ==
    \E i \in 1..BLen(Vperp, T_i) : isfinite(At(Vperp, i)) = isfinite(At(T_i, i))

\* Vperp = <call>: the local name bound to a new object, the call's value
bound(call, heap) ==
    With(call, LAMBDA r :
        [r |-> r, heap |-> IF r.st = "ok" THEN Append(heap, r.val) ELSE heap,
         ref |-> IF r.st = "ok" THEN Len(heap) + 1 ELSE 1])

\* the Vperp kept as given put through the relativistic guard
kept_guarded(heap, ref) ==
    With(check_relativistic(Ok(heap[ref], {}, <<>>), "ok"), LAMBDA r :
        [r |-> r, heap |-> heap, ref |-> ref])

\* the local name left bound to the object ref, no call made
kept(heap, ref) == [r |-> Ok(NoneQ, {}, <<>>), heap |-> heap, ref |-> ref]

\* check 2, lines 937-967: [r, heap, ref], r the thermal_speed call made, if
\* any, and ref the object the local name Vperp ends up bound to
GetVperp(Vperp, T_i, particle, onEmpty) ==
    LET isfinite_Ti == [i \in 1..Len(T_i.v) |-> isfinite(T_i.v[i])]
        h0 == <<Vperp>>
        ts(T) == thermal_speed("gyroradius", T, particle, "most_probable", NaN, onEmpty)
    IN IF ~Vperp.arr /\ ~T_i.arr THEN
           IF isfinite_Ti[1] THEN bound(ts(T_i), h0) ELSE kept(h0, 1)
       ELSE IF ~Vperp.arr THEN
           IF isfinite(Vperp.v[1])
           THEN kept(Append(h0, repeat(Vperp, Len(T_i.v))), 2)
           ELSE bound(ts(T_i), h0)
       ELSE IF ~T_i.arr THEN
           IF isfinite_Ti[1] THEN bound(ts(repeat(T_i, Len(Vperp.v))), h0) ELSE kept(h0, 1)
       ELSE With(copy(h0, 1), LAMBDA cp :
            With(ts(A(Select(T_i.v, isfinite_Ti))), LAMBDA r :
            [r |-> r,
             heap |-> IF r.st = "ok"
                      THEN setitem(cp.heap, cp.ref, isfinite_Ti, r.val.v)
                      ELSE cp.heap,
             ref |-> cp.ref]))

\* [r, caller]: the result, and the caller's Vperp object after the call
gyroradius(caller, B, particle, Vperp, T_i, onEmpty) ==
    LET here == <<<<caller, "gyroradius">>>>
    IN IF Invalid(B, TRUE, FALSE) \/ BothOrNeither(Vperp, T_i)
       THEN [r |-> Err("ValueError", {}, here), caller |-> Vperp]
       ELSE With(GetVperp(Vperp, T_i, particle, onEmpty), LAMBDA g :
            IF g.r.st # "ok"
            THEN [r |-> Raised(g.r, here, {}), caller |-> g.heap[1]]
            ELSE With(gyrofrequency("gyroradius", B, particle, FALSE, NoneV, FALSE),
                      LAMBDA omega_ci :
                 IF omega_ci.st # "ok"
                 THEN [r |-> Raised(omega_ci, here \o g.r.log, g.r.warn), caller |-> g.heap[1]]
                 ELSE LET V == g.heap[g.ref]
                          r_Li == [arr |-> V.arr,
                                   v |-> [i \in 1..Len(V.v) |->
                                             Div(AbsV(V.v[i]), omega_ci.val.v[1])]]
                      IN [r |-> Ok(r_Li, g.r.warn, here \o g.r.log \o omega_ci.log),
                          caller |-> g.heap[1]]))

----------------------------------------------------------------------------
(* The inputs drawn.                                                       *)

ZMeans == {NoneV, I(0), I(-1), R(1, 2), I(2)}

Dens == {I(-1), I(0), I(1), I(4)}

Densities == {[u |-> "m-3", x |-> x] : x \in Dens} \cup {[u |-> "kg/m3", x |-> x] : x \in Dens}

BVals == {I(0), I(-2), R(1, 10), R(1, 20), I(3)}

\* the longest array drawn
MaxLen == 2

\* the arrays of 1..MaxLen elements of a set
Arrays(V) == UNION {[1..k -> V] : k \in 1..MaxLen}

Quantities(V) == {S(x) : x \in V} \cup {A(a) : a \in Arrays(V)}

TeVals == {I(-1), I(0), I(8), I(200), I(80000)}

TVals == {I(-1), I(0), R(1, 2), I(18), I(1250), I(5000)}

KappaTVals == {I(-1), I(0), I(32), I(1250), I(5000), I(20000)}

Kappas == {I(1), R(3, 2), I(2), I(4)}

VperpVals == {NaN, I(-6), I(200), Inf(1)}

TiVals == {NaN, I(2), I(8), I(5000), I(-1)}

\* what numpy's maximum of an array without elements may do
OnEmpty == {"ok", "ValueError"}

\* rates a collision-frequency function may return
Rates == {I(1), I(4)}

----------------------------------------------------------------------------
Init ==
    /\ op = "none"
    /\ args = [none |-> TRUE]
    /\ res = Err("none", {}, <<>>)
    /\ callerVperp = <<>>

Call_grab_charge ==
    /\ op = "none"
    /\ \E ion \in Particles, z_mean \in ZMeans :
        /\ op' = "_grab_charge"
        /\ args' = [ion |-> ion, z_mean |-> z_mean]
        /\ res' = _grab_charge("caller", ion, z_mean)
        /\ callerVperp' = <<>>

Call_mass_density ==
    /\ op = "none"
    /\ \E density \in Densities, particle \in Particles \cup {NoParticle}, z_mean \in ZMeans :
        /\ op' = "mass_density"
        /\ args' = [density |-> density, particle |-> particle, z_mean |-> z_mean]
        /\ res' = mass_density("caller", density, particle, z_mean)
        /\ callerVperp' = <<>>

Call_Alfven_speed ==
    /\ op = "none"
    /\ \E B \in BVals, density \in Densities, ion \in {"p+", "D+", "H", "xx"},
       z_mean \in {NoneV, I(-1), I(2)} :
        /\ op' = "Alfven_speed"
        /\ args' = [B |-> B, density |-> density, ion |-> ion, z_mean |-> z_mean]
        /\ res' = Alfven_speed("caller", B, density, ion, z_mean)
        /\ callerVperp' = <<>>

Call_ion_sound_speed ==
    /\ op = "none"
    /\ \E T_e \in TeVals, T_i \in {I(0), I(8)}, n_e \in {NoneV, I(0), I(2)},
       k \in {NoneV, I(0), I(1)}, gamma_e \in {I(1), R(1, 2)}, gamma_i \in {I(1), I(3), R(1, 2)},
       ion \in {"p+", "D+", "H", "xx"}, z_mean \in {NoneV, I(-1), I(2)} :
        /\ op' = "ion_sound_speed"
        /\ args' = [T_e |-> T_e, T_i |-> T_i, n_e |-> n_e, k |-> k, gamma_e |-> gamma_e,
                    gamma_i |-> gamma_i, ion |-> ion, z_mean |-> z_mean]
        /\ res' = ion_sound_speed("caller", T_e, T_i, n_e, k, gamma_e, gamma_i, ion, z_mean)
        /\ callerVperp' = <<>>

Call_thermal_speed ==
    /\ op = "none"
    /\ \E T \in Quantities(TVals), particle \in {"e-", "p+", "xx"},
       method \in Methods \cup {"bogus"}, mass \in {NaN, I(2), Inf(1)} :
        /\ op' = "thermal_speed"
        /\ args' = [T |-> T, particle |-> particle, method |-> method, mass |-> mass]
        /\ res' = thermal_speed("caller", T, particle, method, mass, "ok")
        /\ callerVperp' = <<>>

Call_kappa_thermal_speed ==
    /\ op = "none"
    /\ \E T \in KappaTVals, kappa \in Kappas, particle \in {"e-", "p+", "xx"},
       method \in Methods \cup {"bogus"} :
        /\ op' = "kappa_thermal_speed"
        /\ args' = [T |-> T, kappa |-> kappa, particle |-> particle, method |-> method]
        /\ res' = kappa_thermal_speed("caller", T, kappa, particle, method)
        /\ callerVperp' = <<>>

Call_gyrofrequency ==
    /\ op = "none"
    /\ \E B \in BVals, particle \in Particles, signed \in BOOLEAN, Z \in ZMeans,
       to_hz \in BOOLEAN :
        /\ op' = "gyrofrequency"
        /\ args' = [B |-> B, particle |-> particle, signed |-> signed, Z |-> Z,
                    to_hz |-> to_hz]
        /\ res' = gyrofrequency("caller", B, particle, signed, Z, to_hz)
        /\ callerVperp' = <<>>

Call_gyroradius ==
    /\ op = "none"
    /\ \E B \in {I(0), I(2)}, particle \in {"e-", "p+", "H"}, Vperp \in Quantities(VperpVals),
       T_i \in Quantities(TiVals), onEmpty \in OnEmpty :
        /\ Vperp.arr /\ T_i.arr => Len(Vperp.v) = Len(T_i.v)
        /\ op' = "gyroradius"
        /\ args' = [B |-> B, particle |-> particle, Vperp |-> Vperp, T_i |-> T_i,
                    onEmpty |-> onEmpty]
        /\ \E g \in {gyroradius("caller", B, particle, Vperp, T_i, onEmpty)} :
              /\ res' = g.r
              /\ callerVperp' = <<g.caller>>

Call_plasma_frequency ==
    /\ op = "none"
    /\ \E n \in Dens, particle \in Particles, z_mean \in ZMeans, to_hz \in BOOLEAN :
        /\ op' = "plasma_frequency"
        /\ args' = [n |-> n, particle |-> particle, z_mean |-> z_mean, to_hz |-> to_hz]
        /\ res' = plasma_frequency("caller", n, particle, z_mean, to_hz)
        /\ callerVperp' = <<>>

Call_upper_hybrid_frequency ==
    /\ op = "none"
    /\ \E B \in BVals, n_e \in Dens, to_hz \in BOOLEAN :
        /\ op' = "upper_hybrid_frequency"
        /\ args' = [B |-> B, n_e |-> n_e, to_hz |-> to_hz]
        /\ res' = upper_hybrid_frequency("caller", B, n_e, to_hz)
        /\ callerVperp' = <<>>

Call_Hall_parameter ==
    /\ op = "none"
    /\ \E n \in Dens, T \in {I(-1), I(8)}, B \in {I(-2), I(3)},
       given \in {Omitted, "e-", "p+", "n", "H", "xx"}, nu_e \in Rates, nu_i \in Rates :
        /\ op' = "Hall_parameter"
        /\ args' = [n |-> n, T |-> T, B |-> B, particle |-> given, nu_e |-> nu_e,
                    nu_i |-> nu_i]
        /\ res' = Hall_parameter("caller", n, T, B, given, nu_e, nu_i)
        /\ callerVperp' = <<>>

Call_inertial_length ==
    /\ op = "none"
    /\ \E n \in Dens, particle \in Particles :
        /\ op' = "inertial_length"
        /\ args' = [n |-> n, particle |-> particle]
        /\ res' = inertial_length("caller", n, particle)
        /\ callerVperp' = <<>>

Call_lower_hybrid_frequency ==
    /\ op = "none"
    /\ \E B \in BVals, n_i \in Dens, ion \in Particles, to_hz \in BOOLEAN :
        /\ op' = "lower_hybrid_frequency"
        /\ args' = [B |-> B, n_i |-> n_i, ion |-> ion, to_hz |-> to_hz]
        /\ res' = lower_hybrid_frequency("caller", B, n_i, ion, to_hz)
        /\ callerVperp' = <<>>

\* the call is over: nothing of it persists
Return ==
    /\ op # "none"
    /\ op' = "none"
    /\ args' = [none |-> TRUE]
    /\ res' = Err("none", {}, <<>>)
    /\ callerVperp' = <<>>

Next ==
    \/ Return
    \/ Call_grab_charge
    \/ Call_mass_density
    \/ Call_Alfven_speed
    \/ Call_ion_sound_speed
    \/ Call_thermal_speed
    \/ Call_kappa_thermal_speed
    \/ Call_gyrofrequency
    \/ Call_gyroradius
    \/ Call_plasma_frequency
    \/ Call_Hall_parameter
    \/ Call_inertial_length
    \/ Call_upper_hybrid_frequency
    \/ Call_lower_hybrid_frequency

Spec == Init /\ [][Next]_vars
----------------------------------------------------------------------------
(* Properties.                                                             *)

\* how often caller called callee
Calls(log, caller, callee) ==
    Cardinality({i \in 1..Len(log) : log[i] = <<caller, callee>>})

\* whether callee was called at all
Called(log, callee) == \E i \in 1..Len(log) : log[i][2] = callee

Resolves(particle) == particle \in Known /\ HasCharge(particle)

\* C1: when z_mean is provided, _grab_charge returns exactly z_mean (zero,
\* negative and fractional values included) without looking up the particle's
\* charge, so it succeeds for a particle whose charge does not resolve; when
\* z_mean is absent it returns the resolver's integer charge, and a failure
\* of the resolver propagates.
C1_ChargePrecedence ==
    op = "_grab_charge" =>
        IF args.z_mean # NoneV
        THEN /\ res.st = "ok"
             /\ res.val = S(args.z_mean)
             /\ ~Called(res.log, "integer_charge")
        ELSE /\ Calls(res.log, "_grab_charge", "integer_charge") = 1
             /\ Resolves(args.ion) => res.st = "ok" /\ res.val = S(I(ChargeOf(args.ion)))
             /\ ~Resolves(args.ion) => res.st = "InvalidParticleError"

C1_Witness ==
    /\ op = "_grab_charge"
    /\ args.z_mean = R(1, 2)
    /\ args.ion = "p+"
    /\ res.st = "ok"
    /\ res.val = S(R(1, 2))

ChargeDependent ==
    {"mass_density", "ion_sound_speed", "gyrofrequency", "plasma_frequency",
     "lower_hybrid_frequency"}

\* C2: a successful call of a charge-dependent formula (mass_density on a
\* number density, ion_sound_speed, gyrofrequency, plasma_frequency,
\* lower_hybrid_frequency) has called _grab_charge exactly once from its own
\* body and has not called the resolver's integer-charge lookup itself.
C2_ChargeMergeOnce ==
    /\ op \in ChargeDependent
    /\ res.st = "ok"
    /\ op = "mass_density" => args.density.u = "m-3"
    => /\ Calls(res.log, op, "_grab_charge") = 1
       /\ Calls(res.log, op, "integer_charge") = 0

\* the pairs (both finite, or both not finite) at some element
Clash(Vperp, T_i) ==
    \E i \in 1..BLen(Vperp, T_i) :
        \/ isfinite(At(Vperp, i)) /\ isfinite(At(T_i, i))
        \/ ~isfinite(At(Vperp, i)) /\ ~isfinite(At(T_i, i))

\* C3: gyroradius fails with ValueError, having called neither thermal_speed
\* nor gyrofrequency, whenever at some element (a scalar being compared with
\* every element of an array) Vperp and T_i are both finite or both not
\* finite; so does every scalar call giving both, and every call giving
\* neither.
C3_GyroradiusExclusivity ==
    op = "gyroradius" /\ Clash(args.Vperp, args.T_i) =>
        /\ res.st = "ValueError"
        /\ ~Called(res.log, "thermal_speed")
        /\ ~Called(res.log, "gyrofrequency")

C3_Witness ==
    /\ op = "gyroradius"
    /\ args.Vperp = A(<<I(-6), NaN>>)
    /\ args.T_i = A(<<NaN, NaN>>)
    /\ res.st = "ValueError"

\* the value of a scalar call that succeeded
Value(r) == r.val.v[1]

\* C4: when gyroradius returns, element i of its result is |v_i| divided by
\* gyrofrequency(B, particle), v_i being thermal_speed(T_i at i, particle)
\* where T_i is finite at i and the Vperp given at i elsewhere, a scalar
\* argument being broadcast to the length of an array argument.
C4_GyroradiusValue ==
    op = "gyroradius" /\ res.st = "ok" =>
        LET n == BLen(args.Vperp, args.T_i)
            omega == Value(gyrofrequency("x", args.B, args.particle, FALSE, NoneV, FALSE))
            v(i) == IF isfinite(At(args.T_i, i))
                    THEN Value(thermal_speed("x", S(At(args.T_i, i)), args.particle,
                                             "most_probable", NaN, "ok"))
                    ELSE At(args.Vperp, i)
        IN /\ res.val.arr = (args.Vperp.arr \/ args.T_i.arr)
           /\ Len(res.val.v) = n
           /\ \A i \in 1..n : res.val.v[i] = Div(AbsV(v(i)), omega)

C4_Witness ==
    /\ op = "gyroradius"
    /\ args.Vperp = A(<<NaN, I(-6)>>)
    /\ args.T_i = A(<<I(8), NaN>>)
    /\ args.B = I(2)
    /\ args.particle = "e-"
    /\ res.st = "ok"
    /\ res.val = A(<<I(2), I(3)>>)

\* C5: after any call of gyroradius, failed or not, the Vperp object the
\* caller passed holds the elements it held before the call.
C5_VperpNotMutated ==
    op = "gyroradius" => callerVperp = <<args.Vperp>>

C5_Witness ==
    /\ op = "gyroradius"
    /\ args.Vperp.arr /\ args.T_i.arr
    /\ \E i \in 1..Len(args.T_i.v) : isfinite(args.T_i.v[i])
    /\ res.st = "ok"
    /\ callerVperp = <<args.Vperp>>
\* the merged charge: z_mean when given, else the particle's charge
Merged(particle, z_mean) == IF z_mean # NoneV THEN z_mean ELSE I(ChargeOf(particle))

\* the two results agree in outcome and value
Same(r1, r2) == r1.st = r2.st /\ r1.val = r2.val

\* the call of ion_sound_speed in args, with n_e and k replaced
SoundSpeedWith(n_e, k) ==
    ion_sound_speed("caller", args.T_e, args.T_i, n_e, k, args.gamma_e, args.gamma_i,
                    args.ion, args.z_mean)

\* C6: the speed ion_sound_speed computes is
\* sqrt((gamma_e Z k_B T_e + gamma_i k_B T_i) / (m_i (1 + klD2))), where klD2
\* is (k lambda_D)^2 with lambda_D = Debye_length(T_e, n_e) when n_e and k
\* are both given and 0 otherwise; PhysicsWarning is emitted exactly when one
\* of n_e, k is given without the other, and the result is then the one
\* obtained with neither.
C6_DispersionPolicy ==
    op = "ion_sound_speed" /\ res.raw # NoneQ =>
        LET both == args.n_e # NoneV /\ args.k # NoneV
            one == (args.n_e = NoneV) # (args.k = NoneV)
            lambda_D == Sqrt(Div(Mul(I(eps0 * k_B), args.T_e), Mul(args.n_e, I(e * e))))
            klD2 == IF both THEN Square(Mul(args.k, lambda_D)) ELSE I(0)
            Z == Merged(args.ion, args.z_mean)
            num == Add(Mul(Mul(Mul(args.gamma_e, Z), I(k_B)), args.T_e),
                       Mul(Mul(args.gamma_i, I(k_B)), args.T_i))
        IN /\ res.raw = S(Sqrt(Div(num, Mul(I(MassOf(args.ion)), Add(I(1), klD2)))))
           /\ "PhysicsWarning" \in res.warn <=> one
           /\ one => Same(res, SoundSpeedWith(NoneV, NoneV))
           /\ both <=> Calls(res.log, "ion_sound_speed", "Debye_length") = 1

C6_Witness ==
    /\ op = "ion_sound_speed"
    /\ args.n_e = NoneV /\ args.k = I(1)
    /\ args.T_e = I(8) /\ args.T_i = I(0) /\ args.ion = "p+" /\ args.z_mean = NoneV
    /\ args.gamma_e = I(1)
    /\ res.st = "ok"
    /\ res.val = S(I(1))
    /\ res.warn = {"PhysicsWarning"}

\* C7 as stated: for every electron density x >= 0, ion_sound_speed with
\* n_e = x and k = 0 gives the result of the call with neither n_e nor k.
C7_AnyDensity ==
    /\ op = "ion_sound_speed"
    /\ args.k = I(0)
    /\ args.n_e # NoneV /\ ~IsNeg(args.n_e)
    => Same(res, SoundSpeedWith(NoneV, NoneV))

\* C7: for every electron density x > 0, ion_sound_speed with n_e = x and
\* k = 0 gives the result of the call with neither n_e nor k, and emits no
\* PhysicsWarning.
C7_PositiveDensity ==
    /\ op = "ion_sound_speed"
    /\ args.k = I(0)
    /\ args.n_e # NoneV /\ RatLt(I(0), args.n_e)
    => /\ Same(res, SoundSpeedWith(NoneV, NoneV))
       /\ "PhysicsWarning" \notin res.warn

C7_Witness ==
    /\ op = "ion_sound_speed"
    /\ args.k = I(0) /\ args.n_e = I(2)
    /\ args.T_e = I(8) /\ args.T_i = I(0) /\ args.ion = "p+" /\ args.z_mean = NoneV
    /\ args.gamma_e = I(1)
    /\ res.st = "ok"
    /\ res.val = S(I(1))

SpeedFormulas == {"Alfven_speed", "ion_sound_speed", "thermal_speed", "kappa_thermal_speed"}

\* some element of q has magnitude >= c n / d
Exceeds(q, n, d) == \E i \in 1..Len(q.v) : AbsGe(q.v[i], c * n, d)

\* the formula computed its speed, every element of it a number
Computed == res.raw # NoneQ /\ \A i \in 1..Len(res.raw.v) : ~isnan(res.raw.v[i])

\* the guard's outcome on the speed the formula computed, the warning also
\* being due when nested holds
GuardOutcome(nested) ==
    IF Exceeds(res.raw, 1, 1) THEN res.st = "RelativityError"
    ELSE /\ res.st = "ok"
         /\ res.val = res.raw
         /\ "RelativityWarning" \in res.warn <=> (Exceeds(res.raw, 1, 20) \/ nested)

\* the thermal speed kappa_thermal_speed scales
Unscaled == S(thermal_speed_of(args.T, I(MassOf(args.particle)), args.method))

\* C8 as stated: each of the four speed formulas, having computed its speed,
\* fails with RelativityError when the largest magnitude is >= c, and
\* otherwise returns the speed unchanged, with RelativityWarning exactly when
\* that magnitude is >= 0.05 c.
C8_WarningExactlyOnResult ==
    op \in SpeedFormulas /\ Computed => GuardOutcome(FALSE)

\* C8: Alfven_speed, ion_sound_speed and thermal_speed, having computed
\* their speed, fail with RelativityError when its largest magnitude is >= c
\* and otherwise return it unchanged, with RelativityWarning exactly when
\* that magnitude is >= 0.05 c; kappa_thermal_speed does the same except that
\* RelativityWarning is also emitted when the unscaled thermal speed it calls
\* thermal_speed for is >= 0.05 c, and that it fails with RelativityError
\* when that unscaled speed is >= c.
C8_RelativisticGuard ==
    /\ op \in SpeedFormulas /\ Computed =>
           GuardOutcome(op = "kappa_thermal_speed" /\ Exceeds(Unscaled, 1, 20))
    /\ /\ op = "kappa_thermal_speed"
       /\ ~IsNeg(args.T) /\ RatLt(R(3, 2), args.kappa)
       /\ args.particle \in Known /\ args.method \in Methods
       /\ Exceeds(Unscaled, 1, 1)
       => res.st = "RelativityError"

C8_Witness ==
    /\ op = "kappa_thermal_speed"
    /\ args.T = I(32) /\ args.kappa = I(2) /\ args.particle = "e-"
    /\ args.method = "most_probable"
    /\ res.st = "ok"
    /\ res.val = S(I(4))
    /\ "RelativityWarning" \in res.warn

\* a scalar call of thermal_speed whose most probable speed sqrt(2 k_B T / m)
\* is c n / d
Producing(n, d) ==
    /\ op = "thermal_speed"
    /\ ~args.T.arr /\ ~IsNeg(args.T.v[1])
    /\ args.method = "most_probable"
    /\ args.particle \in Known
    /\ LET m == IF isfinite(args.mass) THEN args.mass ELSE I(MassOf(args.particle))
       IN Div(Mul(I(2 * k_B), args.T.v[1]), m) = Square(R(c * n, d))

\* C9 as stated: inputs producing v = 0.5 c make the call fail with
\* RelativityError.
C9_HalfLightSpeedRaises ==
    Producing(1, 2) => res.st = "RelativityError"

\* C9: inputs producing v = 0.5 c return 0.5 c with RelativityWarning
\* (RelativityError is raised for inputs producing v = c); inputs producing
\* v = 0.06 c return with RelativityWarning; inputs producing v = 0.01 c
\* return without any warning.
C9_RelativisticBoundary ==
    /\ Producing(1, 1) => res.st = "RelativityError"
    /\ Producing(1, 2) =>
           res.st = "ok" /\ res.val = S(R(c, 2)) /\ "RelativityWarning" \in res.warn
    /\ Producing(6, 100) =>
           res.st = "ok" /\ res.val = S(R(6 * c, 100)) /\ "RelativityWarning" \in res.warn
    /\ Producing(1, 100) =>
           res.st = "ok" /\ res.val = S(R(c, 100)) /\ res.warn = {}

C9_Witness ==
    /\ Producing(1, 2)
    /\ args.T = S(I(1250)) /\ args.particle = "e-" /\ args.mass = NaN
    /\ res.st = "ok"
    /\ "RelativityWarning" \in res.warn

\* C10: for a number density n >= 0, a particle of mass m_ion and a merged
\* charge Z, mass_density returns n m_ion + Z n m_e when that is not
\* negative and fails with ValueError when it is; for n = 4 of 'D+' it is
\* 4 m('D+') + 4 m_e.
C10_MassDensityFromNumberDensity ==
    /\ op = "mass_density"
    /\ args.density.u = "m-3" /\ ~IsNeg(args.density.x)
    /\ args.particle \in Known
    /\ args.z_mean # NoneV \/ HasCharge(args.particle)
    => LET n == args.density.x
           Z == Merged(args.particle, args.z_mean)
           rho == Add(Mul(n, I(MassOf(args.particle))), Mul(Mul(Z, n), I(m_e)))
       IN IF IsNeg(rho) THEN res.st = "ValueError"
          ELSE res.st = "ok" /\ res.val = S(rho)

C10_Witness ==
    /\ op = "mass_density"
    /\ args.density = [u |-> "m-3", x |-> I(4)]
    /\ args.particle = "alpha" /\ args.z_mean = NoneV
    /\ res.st = "ok"
    /\ res.val = S(I(4 * 32 + 2 * 4))

\* C11: mass_density given a mass density (not negative) returns it
\* unchanged and makes no call of the particle resolver or of _grab_charge:
\* it succeeds with an absent, unknown or uncharged particle, and its result
\* does not depend on particle or z_mean.
C11_MassDensityPassthrough ==
    /\ op = "mass_density"
    /\ args.density.u = "kg/m3" /\ ~IsNeg(args.density.x)
    => /\ res.st = "ok"
       /\ res.val = S(args.density.x)
       /\ res.log = <<<<"caller", "mass_density">>>>
       /\ \A particle \in Particles \cup {NoParticle}, z_mean \in ZMeans :
              Same(res, mass_density("caller", args.density, particle, z_mean))

C11_Witness ==
    /\ op = "mass_density"
    /\ args.density = [u |-> "kg/m3", x |-> I(4)]
    /\ args.particle = "xx" /\ args.z_mean = NoneV
    /\ res.st = "ok"
    /\ res.val = S(I(4))

\* C12: mass_density given a number density and no particle fails with
\* ValueError, returns no density, and has called neither particle_mass nor
\* integer_charge nor _grab_charge.
C12_MissingParticle ==
    /\ op = "mass_density"
    /\ args.density.u = "m-3"
    /\ args.particle = NoParticle
    => /\ res.st = "ValueError"
       /\ res.val = NoneQ
       /\ ~Called(res.log, "particle_mass")
       /\ ~Called(res.log, "integer_charge")
       /\ ~Called(res.log, "_grab_charge")

C12_Witness ==
    /\ op = "mass_density"
    /\ args.density = [u |-> "m-3", x |-> I(4)]
    /\ args.particle = NoParticle /\ args.z_mean = I(2)
    /\ res.st = "ValueError"

\* C13: for a valid B and density, Alfven_speed fails as
\* mass_density(density, ion, z_mean) fails, and otherwise computes
\* |B| / sqrt(mu0 rho) with rho the value of that call; given a number
\* density it ends as the call given the mass density rho instead ends, with
\* the same value and the same warnings.
C13_AlfvenRelation ==
    /\ op = "Alfven_speed"
    /\ ~IsNeg(args.density.x)
    => LET md == mass_density("Alfven_speed", args.density, args.ion, args.z_mean)
           rho == md.val.v[1]
           viaRho == Alfven_speed("caller", args.B, [u |-> "kg/m3", x |-> rho],
                                  args.ion, args.z_mean)
       IN IF md.st # "ok" THEN res.st = md.st /\ res.val = NoneQ
          ELSE /\ res.raw = S(Div(AbsV(args.B), Sqrt(Mul(R(1, c * c), rho))))
               /\ res.st \in {"ok", "RelativityError"}
               /\ res.st = "ok" => res.val = res.raw
               /\ Same(res, viaRho) /\ res.warn = viaRho.warn

C13_Witness ==
    /\ op = "Alfven_speed"
    /\ args.B = R(1, 10)
    /\ args.density = [u |-> "m-3", x |-> I(4)]
    /\ args.ion = "p+" /\ args.z_mean = NoneV
    /\ res.st = "ok"
    /\ res.val = S(R(5, 3))

\* the arguments of the ion_sound_speed call pass validation and its ion
\* resolves: a known particle, with a charge of its own or a z_mean given
ValidSoundSpeedCall ==
    /\ op = "ion_sound_speed"
    /\ ~IsNeg(args.T_e) /\ ~IsNeg(args.T_i)
    /\ args.n_e = NoneV \/ ~IsNeg(args.n_e)
    /\ args.k = NoneV \/ ~IsNeg(args.k)
    /\ args.ion \in Known
    /\ args.z_mean # NoneV \/ HasCharge(args.ion)

\* C14: for a resolvable ion and otherwise valid inputs, ion_sound_speed
\* fails with PhysicsError and returns no speed when gamma_e < 1 or
\* gamma_i < 1, and does not fail with PhysicsError when both are >= 1, the
\* value 1 included.
C14_AdiabaticIndexDomain ==
    ValidSoundSpeedCall =>
        IF RatLt(args.gamma_e, I(1)) \/ RatLt(args.gamma_i, I(1))
        THEN res.st = "PhysicsError" /\ res.val = NoneQ /\ res.raw = NoneQ
        ELSE res.st \in {"ok", "RelativityError"} /\ res.raw # NoneQ

C14_Witness ==
    /\ ValidSoundSpeedCall
    /\ args.gamma_e = I(1) /\ args.gamma_i = R(1, 2)
    /\ args.T_e = I(8) /\ args.ion = "p+"
    /\ res.st = "PhysicsError"

\* the arguments of the thermal_speed call pass validation and its particle
\* is known
ValidThermalSpeedCall ==
    /\ op = "thermal_speed"
    /\ \A i \in 1..Len(args.T.v) : ~IsNeg(args.T.v[i])
    /\ args.particle \in Known

\* the mass thermal_speed is to use: the override when finite
MassUsed ==
    IF args.mass \in {NaN, Inf(1), Inf(-1)} THEN I(MassOf(args.particle)) ELSE args.mass

\* the speed of the method for the temperature T and the mass m
MethodSpeed(T, m, method) ==
    IF method = "most_probable" THEN Sqrt(Div(Mul(I(2 * k_B), T), m))
    ELSE IF method = "rms" THEN Sqrt(Div(Mul(I(3 * k_B), T), m))
    ELSE Sqrt(Div(Mul(I(8 * k_B), T), Mul(Rat(1, 1, 1), m)))

\* C15: for valid inputs thermal_speed computes, element by element,
\* sqrt(2 k T / m) for most_probable, sqrt(3 k T / m) for rms and
\* sqrt(8 k T / (pi m)) for mean_magnitude, m being the mass override when
\* that is finite and the particle's mass when it is NaN or infinite; any
\* other method fails with ValueError.
C15_ThermalSpeedMethods ==
    ValidThermalSpeedCall =>
        IF args.method \notin {"most_probable", "rms", "mean_magnitude"}
        THEN res.st = "ValueError" /\ res.val = NoneQ
        ELSE /\ res.raw = [arr |-> args.T.arr,
                           v |-> [i \in 1..Len(args.T.v) |->
                                     MethodSpeed(args.T.v[i], MassUsed, args.method)]]
             /\ res.st \in {"ok", "RelativityError"}
             /\ res.st = "ok" => res.val = res.raw

C15_Witness ==
    /\ ValidThermalSpeedCall
    /\ args.T = S(I(18)) /\ args.particle = "p+"
    /\ args.method = "rms" /\ args.mass = Inf(1)
    /\ res.st = "ok"
    /\ res.val = S(Root(1, 27, 4, 0))

\* C16: kappa_thermal_speed fails with ValueError, thermal_speed not having
\* been called, for every kappa <= 3/2; for kappa > 3/2 and a valid T it
\* fails as thermal_speed(T, particle, method) fails, and otherwise computes
\* that call's value times sqrt((kappa - 3/2) / kappa) for most_probable and
\* that call's value itself for rms and mean_magnitude.
C16_KappaThermalSpeed ==
    op = "kappa_thermal_speed" =>
        IF ~RatLt(R(3, 2), args.kappa)
        THEN /\ res.st = "ValueError"
             /\ res.val = NoneQ
             /\ ~Called(res.log, "thermal_speed")
        ELSE ~IsNeg(args.T) =>
             LET vTh == thermal_speed("kappa_thermal_speed", S(args.T), args.particle,
                                      args.method, NaN, "ok")
                 scale == Sqrt(Div(Add(args.kappa, R(-3, 2)), args.kappa))
             IN IF vTh.st # "ok" THEN res.st = vTh.st /\ res.val = NoneQ
                ELSE /\ Calls(res.log, "kappa_thermal_speed", "thermal_speed") = 1
                     /\ res.st = "ok"
                     /\ res.val = IF args.method = "most_probable"
                                  THEN S(Mul(Value(vTh), scale))
                                  ELSE vTh.val

C16_Witness ==
    /\ op = "kappa_thermal_speed"
    /\ args.T = I(32) /\ args.kappa = I(4) /\ args.particle = "e-"
    /\ args.method = "most_probable"
    /\ res.st = "ok"
    /\ res.val = S(Root(1, 40, 1, 0))

\* a most-probable kappa_thermal_speed call that returned
KappaMostProbable ==
    /\ op = "kappa_thermal_speed"
    /\ args.method = "most_probable"
    /\ res.st = "ok"

\* (2 kappa - 3) f k_B T / (kappa m), under the square root
KappaRadicand(f) ==
    Div(Mul(Mul(Add(Mul(I(2), args.kappa), I(-3)), I(f * k_B)), args.T),
        Mul(args.kappa, I(MassOf(args.particle))))

TwoPi == Rat(2, 1, 1)

\* C18: for a known particle with a charge of its own or an override Z,
\* gyrofrequency returns Z e |B| / m (divided by 2 pi when asked in Hz), Z
\* being the override when given and the particle's charge otherwise, taken
\* in magnitude when signed is false: the result is then never negative,
\* whatever the particle, the override and the sign of B; when signed is
\* true and B is not zero the result has the sign of Z.
C18_Gyrofrequency ==
    /\ op = "gyrofrequency"
    /\ args.particle \in Known
    /\ args.Z # NoneV \/ HasCharge(args.particle)
    => LET Zm == Merged(args.particle, args.Z)
           Zu == IF args.signed THEN Zm ELSE AbsV(Zm)
           omega == Div(Mul(Mul(Zu, I(e)), AbsV(args.B)), I(MassOf(args.particle)))
       IN /\ res.st = "ok"
          /\ Value(res) = IF args.to_hz THEN Div(omega, TwoPi) ELSE omega
          /\ ~args.signed => ~IsNeg(Value(res))
          /\ args.signed /\ ~IsZero(args.B) =>
                 /\ IsNeg(Value(res)) <=> IsNeg(Zm)
                 /\ IsZero(Value(res)) <=> IsZero(Zm)

C18_Witness ==
    /\ op = "gyrofrequency"
    /\ args.particle = "e-" /\ args.Z = NoneV
    /\ args.B = I(-2) /\ args.signed /\ ~args.to_hz
    /\ res.st = "ok"
    /\ res.val = S(I(-2))

\* C19: with a valid n, plasma_frequency succeeds for every particle whose
\* mass resolves and returns |Z| e sqrt(n / (eps0 m)) (divided by 2 pi when
\* asked in Hz), where Z is z_mean when given, the particle's charge when
\* that resolves, and 1 when it does not; with z_mean given the particle's
\* charge is not looked up; a particle whose mass does not resolve makes the
\* call fail with ValueError.
C19_PlasmaFrequencyCharge ==
    op = "plasma_frequency" /\ ~IsNeg(args.n) =>
        IF args.particle \notin Known
        THEN res.st = "ValueError" /\ res.val = NoneQ
        ELSE LET Z == IF args.z_mean # NoneV THEN args.z_mean
                      ELSE IF HasCharge(args.particle) THEN I(ChargeOf(args.particle))
                      ELSE I(1)
                 omega == Mul(Mul(AbsV(Z), I(e)),
                              Sqrt(Div(args.n, Mul(I(eps0), I(MassOf(args.particle))))))
             IN /\ res.st = "ok"
                /\ Value(res) = IF args.to_hz THEN Div(omega, TwoPi) ELSE omega
                /\ args.z_mean # NoneV => ~Called(res.log, "integer_charge")

C19_Witness ==
    /\ op = "plasma_frequency"
    /\ args.particle = "H" /\ args.z_mean = NoneV
    /\ args.n = I(4) /\ ~args.to_hz
    /\ res.st = "ok"
    /\ res.val = S(Root(1, 1, 2, 0))

AngularFormulas ==
    {"gyrofrequency", "plasma_frequency", "upper_hybrid_frequency", "lower_hybrid_frequency"}

\* the call in args made again without the request for Hz
AngularCall ==
    CASE op = "gyrofrequency" ->
             gyrofrequency("caller", args.B, args.particle, args.signed, args.Z, FALSE)
      [] op = "plasma_frequency" ->
             plasma_frequency("caller", args.n, args.particle, args.z_mean, FALSE)
      [] op = "upper_hybrid_frequency" ->
             upper_hybrid_frequency("caller", args.B, args.n_e, FALSE)
      [] op = "lower_hybrid_frequency" ->
             lower_hybrid_frequency("caller", args.B, args.n_i, args.ion, FALSE)

\* C20: a call of gyrofrequency, plasma_frequency, upper_hybrid_frequency or
\* lower_hybrid_frequency ends as the same call without the request for Hz
\* ends; when it returns, its value is the angular value unchanged if Hz was
\* not requested, and the angular value divided by 2 pi if it was, so that
\* this value times 2 pi is the angular value again.
C20_FrequencyRoundTrip ==
    op \in AngularFormulas =>
        LET omega == AngularCall
        IN /\ res.st = omega.st
           /\ res.st = "ok" =>
                  /\ omega.val = res.raw
                  /\ IF args.to_hz
                     THEN /\ Value(res) = Div(Value(omega), TwoPi)
                          /\ Mul(Value(res), TwoPi) = Value(omega)
                     ELSE res.val = omega.val

C20_Witness ==
    /\ op = "upper_hybrid_frequency"
    /\ args.B = I(3) /\ args.n_e = I(4) /\ args.to_hz
    /\ res.st = "ok"
    /\ res.raw = S(Root(1, 13, 1, 0))
    /\ res.val = S(Root(1, 13, 4, -2))

\* the arguments of the lower_hybrid_frequency call pass validation
ValidLowerHybridCall ==
    /\ op = "lower_hybrid_frequency"
    /\ ~IsNeg(args.n_i)

\* the three frequencies lower_hybrid_frequency combines
W_ci == Value(gyrofrequency("x", args.B, args.ion, FALSE, NoneV, FALSE))

W_ce == Value(gyrofrequency("x", args.B, "e-", FALSE, NoneV, FALSE))

W_pi == Value(plasma_frequency("x", args.n_i, args.ion, NoneV, FALSE))

\* C21: lower_hybrid_frequency fails with ValueError, having called neither
\* gyrofrequency nor plasma_frequency, when the integer charge of the ion
\* does not resolve (plasma_frequency's Z = 1 is not used); for an ion whose
\* charge resolves it computes ((w_ci w_ce)^-1 + w_pi^-2)^(-1/2) with
\* w_ci = gyrofrequency(B, ion), w_ce = gyrofrequency(B) of the electron and
\* w_pi = plasma_frequency(n_i, ion).
C21_LowerHybridFrequency ==
    ValidLowerHybridCall =>
        IF ~Resolves(args.ion)
        THEN /\ res.st = "ValueError"
             /\ res.val = NoneQ
             /\ Calls(res.log, "lower_hybrid_frequency", "integer_charge") = 1
             /\ ~Called(res.log, "gyrofrequency")
             /\ ~Called(res.log, "plasma_frequency")
        ELSE /\ res.st = "ok"
             /\ res.raw = S(Div(I(1), Sqrt(Add(Div(I(1), Mul(W_ci, W_ce)),
                                                Div(I(1), Square(W_pi))))))
             /\ Calls(res.log, "lower_hybrid_frequency", "gyrofrequency") = 2
             /\ Calls(res.log, "lower_hybrid_frequency", "plasma_frequency") = 1

C21_Witness ==
    /\ ValidLowerHybridCall
    /\ args.ion = "H" /\ args.B = I(3) /\ args.n_i = I(4)
    /\ res.st = "ValueError"

\* C22: the angular value w_lh that lower_hybrid_frequency returns for
\* non-zero w_ci and w_pi satisfies the relation of the docstring,
\* 1 / w_lh^2 = 1 / (w_ci^2 + w_pi^2) + 1 / (w_ci w_ce).
C22_DocstringRelation ==
    /\ ValidLowerHybridCall
    /\ res.st = "ok"
    /\ ~IsZero(W_ci) /\ ~IsZero(W_pi)
    => Div(I(1), Square(res.raw.v[1]))
           = Add(Div(I(1), Add(Square(W_ci), Square(W_pi))), Div(I(1), Mul(W_ci, W_ce)))

\* C23: for a valid n and a known particle, inertial_length fails, returns
\* nothing and has not called plasma_frequency when the particle has charge
\* zero or no charge of its own; for a particle of non-zero charge it
\* returns c / plasma_frequency(n, particle).
C23_InertialLength ==
    /\ op = "inertial_length"
    /\ ~IsNeg(args.n)
    /\ args.particle \in Known
    => IF ~HasCharge(args.particle) \/ ChargeOf(args.particle) = 0
       THEN /\ res.st \notin {"ok", "none"}
            /\ res.val = NoneQ
            /\ ~Called(res.log, "plasma_frequency")
       ELSE /\ res.st = "ok"
            /\ Value(res) = Div(I(c), Value(plasma_frequency("x", args.n, args.particle,
                                                            NoneV, FALSE)))
            /\ Calls(res.log, "inertial_length", "plasma_frequency") = 1

C23_Witness ==
    /\ op = "inertial_length"
    /\ args.n = I(4) /\ args.particle = "H"
    /\ res.st # "ok"
    /\ res.log = <<<<"caller", "inertial_length">>>>

\* C24: for valid n and T and a particle gyrofrequency accepts,
\* Hall_parameter calls the electron collision-frequency function, and not
\* the ion one, exactly when the particle is the electron, which it is when
\* none is given, and the ion one, and not the electron one, for every other
\* particle; it returns gyrofrequency(B, particle) divided by the rate
\* obtained.
C24_HallParameter ==
    /\ op = "Hall_parameter"
    /\ ~IsNeg(args.n) /\ ~IsNeg(args.T)
    => LET particle == IF args.particle = "omitted" THEN "e-" ELSE args.particle
           gyro == gyrofrequency("x", args.B, particle, FALSE, NoneV, FALSE)
           electron == Calls(res.log, "Hall_parameter", "fundamental_electron_collision_freq")
           ion == Calls(res.log, "Hall_parameter", "fundamental_ion_collision_freq")
       IN IF gyro.st # "ok" THEN res.st = gyro.st /\ electron = 0 /\ ion = 0
          ELSE /\ res.st = "ok"
               /\ IF particle = "e-"
                  THEN electron = 1 /\ ion = 0 /\ Value(res) = Div(Value(gyro), args.nu_e)
                  ELSE electron = 0 /\ ion = 1 /\ Value(res) = Div(Value(gyro), args.nu_i)

C24_Witness ==
    /\ op = "Hall_parameter"
    /\ args.particle = "omitted"
    /\ args.B = I(3) /\ args.nu_e = I(4) /\ args.nu_i = I(1)
    /\ res.st = "ok"
    /\ res.val = S(R(3, 4))

\* a valid most-probable kappa_thermal_speed call, the unscaled speed
\* sqrt(2 k_B T / m) and the scaled one it would return
ValidKappaMostProbable ==
    /\ op = "kappa_thermal_speed"
    /\ args.method = "most_probable"
    /\ ~IsNeg(args.T) /\ RatLt(R(3, 2), args.kappa)
    /\ args.particle \in Known

UnscaledSpeed == Sqrt(Div(Mul(I(2 * k_B), args.T), I(MassOf(args.particle))))

ScaledSpeed == Mul(UnscaledSpeed, Sqrt(Div(Add(args.kappa, R(-3, 2)), args.kappa)))

\* C25: a valid most-probable kappa_thermal_speed call fails with
\* RelativityError when the unscaled thermal speed is >= c, also when the
\* scaled speed is below c; when the unscaled speed is below c it returns
\* the scaled speed, with RelativityWarning exactly when the unscaled speed
\* is >= 0.05 c, also when the scaled speed is below 0.05 c.
C25_KappaDoubleGuard ==
    ValidKappaMostProbable =>
        IF AbsGe(UnscaledSpeed, c, 1)
        THEN res.st = "RelativityError" /\ res.val = NoneQ
        ELSE /\ res.st = "ok"
             /\ Value(res) = ScaledSpeed
             /\ "RelativityWarning" \in res.warn <=> AbsGe(UnscaledSpeed, c, 20)

C25_Witness ==
    /\ ValidKappaMostProbable
    /\ args.T = I(5000) /\ args.kappa = I(2) /\ args.particle = "e-"
    /\ ScaledSpeed = I(50)
    /\ res.st = "RelativityError"

\* a gyroradius call that passes check 1, no temperature in it negative
ExclusiveGyroradiusCall ==
    /\ op = "gyroradius"
    /\ ~Clash(args.Vperp, args.T_i)
    /\ \A i \in 1..Len(args.T_i.v) : ~IsNeg(args.T_i.v[i])

\* some finite T_i gives a most probable speed >= c
HotTemperature ==
    \E i \in 1..Len(args.T_i.v) :
        /\ isfinite(args.T_i.v[i])
        /\ AbsGe(Sqrt(Div(Mul(I(2 * k_B), args.T_i.v[i]), I(MassOf(args.particle)))), c, 1)

\* no T_i is finite: every speed is the caller's Vperp
OnlyVperp == \A i \in 1..Len(args.T_i.v) : ~isfinite(args.T_i.v[i])

\* C26: a gyroradius call in which a finite T_i gives a thermal speed >= c
\* fails with RelativityError and returns no radius; a call in which every
\* speed is a Vperp the caller gave never fails with RelativityError and
\* never warns, whatever the magnitudes (>= c included), and for a particle
\* with a charge returns |Vperp| / gyrofrequency(B, particle) element by
\* element (two arrays being given, provided the thermal_speed call on the
\* empty selection of T_i returns).
C26_GuardOnThermalSpeedsOnly ==
    ExclusiveGyroradiusCall =>
        /\ HotTemperature => res.st = "RelativityError" /\ res.val = NoneQ
        /\ OnlyVperp =>
               /\ res.st # "RelativityError"
               /\ "RelativityWarning" \notin res.warn
               /\ /\ HasCharge(args.particle)
                  /\ args.Vperp.arr /\ args.T_i.arr => args.onEmpty = "ok"
                  => /\ res.st = "ok"
                     /\ \A i \in 1..BLen(args.Vperp, args.T_i) :
                            res.val.v[i] =
                                Div(AbsV(At(args.Vperp, i)),
                                    Value(gyrofrequency("x", args.B, args.particle, FALSE,
                                                        NoneV, FALSE)))

C26_Witness ==
    /\ ExclusiveGyroradiusCall
    /\ args.Vperp = S(I(200)) /\ args.T_i = S(NaN)
    /\ args.particle = "e-" /\ args.B = I(2)
    /\ res.st = "ok"
    /\ res.val = S(I(100))
    /\ res.warn = {}
====
